---- MODULE Spec2Model ----
(***************************************************************************)
(* Crosswalk simulator: a pedestrian walks a lazily generated city grid.   *)
(* Model of src/crosswalk-simulator.py: traffic_light, sidewalk_block,     *)
(* pedestrian, city_map and simulation.                                    *)
(*                                                                         *)
(* Python floats are modelled as exact rationals <<numerator, denominator>>*)
(* in lowest terms with a positive denominator, so that phases such as 0.5 *)
(* and quotients length / velocity are computed, not assumed.  Rounding of *)
(* IEEE doubles is not modelled.                                           *)
(***************************************************************************)
EXTENDS Integers, Sequences, FiniteSets, TLC

VARIABLES
    city_map,                            \* simulation.city_map (a city_map object)
    pedestrian,                          \* simulation.pedestrian
    time,                                \* simulation.time
    cumulative_time_waiting_at_lights,   \* simulation.cumulative_time_waiting_at_lights
    cumulative_lights_waited_at,         \* simulation.cumulative_lights_waited_at
    pc,                                  \* position of run_simulations() in one trial
    next_id,                             \* identity of the next object constructed
    last,                                \* history: what the last operation did
    probe,                               \* a traffic_light under unit test
    grid_ops,                            \* operations applied to a city_map under unit test
    log                                  \* monte_carlo.log

vars == <<city_map, pedestrian, time, cumulative_time_waiting_at_lights,
          cumulative_lights_waited_at, pc, next_id, last, probe, grid_ops, log>>

-----------------------------------------------------------------------------
(* Bounds of the model *)

MaxExtent == 3          \* grid lengths are 1 .. MaxExtent and 3/2
MaxProbeTime == 24      \* probe times are k/2 for k in 0 .. 2*MaxProbeTime
MaxGridOps == 4         \* operations applied to a city_map under unit test

-----------------------------------------------------------------------------
(* Exact rational arithmetic standing for Python float arithmetic *)

\* Each operation is a function of the tuple of its operands, so that an
\* operand is evaluated once however often the operation reads it.
RECURSIVE GCD(_, _)
GCD(a, b) == IF b = 0 THEN a ELSE GCD(b, a % b)

Abs(n) == IF n < 0 THEN -n ELSE n

NormOf[p \in Int \X Int] ==
    LET g == GCD(Abs(p[1]), Abs(p[2]))
        s == IF p[2] < 0 THEN -1 ELSE 1
    IN  <<(s * p[1]) \div g, (s * p[2]) \div g>>

Norm(n, d) == NormOf[<<n, d>>]

Rat == Int \X Int

R(n) == <<n, 1>>
Q(n, d) == Norm(n, d)

AddOf[p \in Rat \X Rat] ==
    Norm(p[1][1] * p[2][2] + p[2][1] * p[1][2], p[1][2] * p[2][2])
SubOf[p \in Rat \X Rat] ==
    Norm(p[1][1] * p[2][2] - p[2][1] * p[1][2], p[1][2] * p[2][2])
MulOf[p \in Rat \X Rat] == Norm(p[1][1] * p[2][1], p[1][2] * p[2][2])
DivOf[p \in Rat \X Rat] == Norm(p[1][1] * p[2][2], p[1][2] * p[2][1])
LtOf[p \in Rat \X Rat] == p[1][1] * p[2][2] < p[2][1] * p[1][2]
LeOf[p \in Rat \X Rat] == p[1][1] * p[2][2] <= p[2][1] * p[1][2]

RAdd(a, b) == AddOf[<<a, b>>]
RSub(a, b) == SubOf[<<a, b>>]
RMul(a, b) == MulOf[<<a, b>>]
RDiv(a, b) == DivOf[<<a, b>>]
RLt(a, b) == LtOf[<<a, b>>]
RLe(a, b) == LeOf[<<a, b>>]
FloorOf[a \in Rat] == a[1] \div a[2]
RFloor(a) == FloorOf[a]
\* Python's a % b for b > 0: a - b * floor(a / b)
ModOf[p \in Rat \X Rat] == RSub(p[1], RMul(p[2], R(RFloor(RDiv(p[1], p[2])))))
RMod(a, b) == ModOf[<<a, b>>]

\* Python's None; as a constructor argument `v or sample` also replaces 0
None == <<0, 0>>
OrOf[p \in Rat \X Rat] == IF p[1] = None \/ p[1][1] = 0 THEN p[2] ELSE p[1]
Or(v, sample) == OrOf[<<v, sample>>]

other_direction == [x |-> "y", y |-> "x"]
Directions == {"x", "y"}
Corners == {"upper_left", "lower_left", "upper_right", "lower_right"}

-----------------------------------------------------------------------------
(* class traffic_light *)

\* variant of set_initial_time_offset that scales every state by the x duration
set_initial_time_offset_x_only(light, initial_state) ==
    [light EXCEPT !.initial_cycle_time = RMul(light.x_signal_duration, initial_state)]

set_initial_time_offset(light, initial_state) ==
    IF RLt(initial_state, R(1))
    THEN [light EXCEPT !.initial_cycle_time =
              RMul(light.x_signal_duration, initial_state)]
    ELSE [light EXCEPT !.initial_cycle_time =
              RAdd(light.x_signal_duration,
                   RMul(light.y_signal_duration, RSub(initial_state, R(1))))]

\* traffic_light.__init__: args are explicit values or None, s the samples drawn
traffic_light(id, args, s) ==
    LET initial_state == Or(args.initial_state, s.initial_state)
        light == [id |-> id,
                  x_length |-> Or(args.x_length, s.x_length),
                  y_length |-> Or(args.y_length, s.y_length),
                  x_signal_duration |-> Or(args.x_signal_duration, s.x_signal_duration),
                  y_signal_duration |-> Or(args.y_signal_duration, s.y_signal_duration),
                  state |-> initial_state,
                  initial_cycle_time |-> R(0)]
    IN  set_initial_time_offset(light, initial_state)

\* variant of set_state that does not reduce the time modulo the cycle
set_state_nomod(light, t) ==
    LET mid_cycle_time == RAdd(t, light.initial_cycle_time)
    IN  IF RLt(mid_cycle_time, light.x_signal_duration)
        THEN [light EXCEPT !.state = RDiv(mid_cycle_time, light.x_signal_duration)]
        ELSE [light EXCEPT !.state =
                  RAdd(R(1), RDiv(RSub(mid_cycle_time, light.x_signal_duration),
                                  light.y_signal_duration))]

\* variant of set_state that advances from the current state instead of
\* recomputing from the initial offset
set_state_accumulating(light, t) ==
    LET offset == IF RLt(light.state, R(1))
                  THEN RMul(light.state, light.x_signal_duration)
                  ELSE RAdd(light.x_signal_duration,
                            RMul(RSub(light.state, R(1)), light.y_signal_duration))
        mid_cycle_time ==
            RMod(RAdd(t, offset),
                 RAdd(light.x_signal_duration, light.y_signal_duration))
    IN  IF RLt(mid_cycle_time, light.x_signal_duration)
        THEN [light EXCEPT !.state = RDiv(mid_cycle_time, light.x_signal_duration)]
        ELSE [light EXCEPT !.state =
                  RAdd(R(1), RDiv(RSub(mid_cycle_time, light.x_signal_duration),
                                  light.y_signal_duration))]

set_state(light, t) ==
    LET mid_cycle_time ==
            RMod(RAdd(t, light.initial_cycle_time),
                 RAdd(light.x_signal_duration, light.y_signal_duration))
    IN  IF RLt(mid_cycle_time, light.x_signal_duration)
        THEN [light EXCEPT !.state = RDiv(mid_cycle_time, light.x_signal_duration)]
        ELSE [light EXCEPT !.state =
                  RAdd(R(1), RDiv(RSub(mid_cycle_time, light.x_signal_duration),
                                  light.y_signal_duration))]

\* variant of light_time_to_cross that multiplies by the velocity
light_time_to_cross_product(light, direction, velocity) ==
    IF direction = "x"
    THEN RMul(light.x_length, velocity)
    ELSE RMul(light.y_length, velocity)

light_time_to_cross(light, direction, velocity) ==
    IF direction = "x"
    THEN RDiv(light.x_length, velocity)
    ELSE RDiv(light.y_length, velocity)

current_crossing_direction(light) ==
    IF RLe(R(0), light.state) /\ RLt(light.state, R(1)) THEN "x" ELSE "y"

time_until_switch_directions(light) ==
    LET signal_duration ==
            IF current_crossing_direction(light) = "x"
            THEN light.x_signal_duration
            ELSE light.y_signal_duration
        ratio_crossing_remaining == RSub(R(1), RMod(light.state, R(1)))
    IN  RMul(ratio_crossing_remaining, signal_duration)

\* variant of time_until_switch_directions_twice that adds a whole cycle
time_until_switch_directions_plus_cycle(light) ==
    RAdd(time_until_switch_directions(light),
         RAdd(light.x_signal_duration, light.y_signal_duration))

\* variant of time_until_switch_directions_twice that stops at the first switch
time_until_switch_directions_twice_single(light) ==
    time_until_switch_directions(light)

time_until_switch_directions_twice(light) ==
    IF current_crossing_direction(light) = "x"
    THEN RAdd(time_until_switch_directions(light), light.y_signal_duration)
    ELSE RAdd(time_until_switch_directions(light), light.x_signal_duration)

\* variant of enough_time_to_cross that compares with < instead of <=
enough_time_to_cross_strict(light, direction, velocity) ==
    RLt(light_time_to_cross(light, direction, velocity),
        time_until_switch_directions(light))

enough_time_to_cross(light, direction, velocity) ==
    RLe(light_time_to_cross(light, direction, velocity),
        time_until_switch_directions(light))

\* variant of time_until_can_cross that does not compare the direction
time_until_can_cross_any_direction(light, direction, velocity) ==
    IF enough_time_to_cross(light, direction, velocity)
    THEN R(0)
    ELSE IF current_crossing_direction(light) = direction
         THEN time_until_switch_directions_twice(light)
         ELSE time_until_switch_directions(light)

\* variant of time_until_can_cross that waits for one switch only
time_until_can_cross_once(light, direction, velocity) ==
    IF current_crossing_direction(light) = direction
    THEN IF enough_time_to_cross(light, direction, velocity)
         THEN R(0)
         ELSE time_until_switch_directions(light)
    ELSE time_until_switch_directions(light)

time_until_can_cross(light, direction, velocity) ==
    IF current_crossing_direction(light) = direction
    THEN IF enough_time_to_cross(light, direction, velocity)
         THEN R(0)
         ELSE time_until_switch_directions_twice(light)
    ELSE time_until_switch_directions(light)

-----------------------------------------------------------------------------
(* class sidewalk_block *)

sidewalk_block(id, args, s) ==
    [id |-> id,
     x_length |-> Or(args.x_length, s.x_length),
     y_length |-> Or(args.y_length, s.y_length)]

\* variant of block_time_to_cross that takes the length of the other direction
block_time_to_cross_other(block, direction, velocity) ==
    IF direction = "x"
    THEN RDiv(block.y_length, velocity)
    ELSE RDiv(block.x_length, velocity)

block_time_to_cross(block, direction, velocity) ==
    IF direction = "x"
    THEN RDiv(block.x_length, velocity)
    ELSE RDiv(block.y_length, velocity)

-----------------------------------------------------------------------------
(* class pedestrian *)

NoPedestrianArgs == [velocity |-> None, choice_wait_time |-> None]

\* pedestrian.__init__: s.velocity, s.choice_wait_time are the samples the
\* random_* methods would return
new_pedestrian(args, s) ==
    [velocity |-> Or(args.velocity, s.velocity),
     choice_wait_time |-> Or(args.choice_wait_time, s.choice_wait_time)]

\* variant of would_choose_to_wait_for_light that compares with < instead of <=
would_choose_to_wait_for_light_strict(p, wait_time) ==
    RLt(wait_time, p.choice_wait_time)

would_choose_to_wait_for_light(p, wait_time) ==
    IF RLe(wait_time, p.choice_wait_time) THEN TRUE ELSE FALSE

-----------------------------------------------------------------------------
(* class city_map *)

\* an empty slot of traffic_light_segments (Python None)
NoLight == [id |-> 0]

NoLightArgs == [x_length |-> None, y_length |-> None, x_signal_duration |-> None,
                y_signal_duration |-> None, initial_state |-> None]
NoBlockArgs == [x_length |-> None, y_length |-> None]

\* city_map.__init__: s.x_length, s.y_length are the sampled grid lengths and
\* s.block the samples of the first sidewalk_block
new_city_map(id, args, s) ==
    [length |-> [x |-> Or(args.x_length, s.x_length),
                 y |-> Or(args.y_length, s.y_length)],
     grid_position |-> [x |-> 1, y |-> 1],
     sidewalk_position |-> "upper_left",
     end_reached |-> "False",
     sidewalk_segment |-> sidewalk_block(id, NoBlockArgs, s.block),
     traffic_light_segments |-> [c \in Corners |-> NoLight]]

\* lines 176-183: the new block, one side matched to the current block
\* variant that samples both lengths of the new block
next_block_fresh(cm, direction, id, s) ==
    sidewalk_block(id, NoBlockArgs, s)

next_block(cm, direction, id, s) ==
    IF direction = "x"
    THEN sidewalk_block(id, [NoBlockArgs EXCEPT !.y_length = cm.sidewalk_segment.y_length], s)
    ELSE sidewalk_block(id, [NoBlockArgs EXCEPT !.x_length = cm.sidewalk_segment.x_length], s)

\* lines 185-191: grid position and the 4-state end_reached flag
\* variant that compares with > instead of >=
next_end_reached_strict(cm, direction) ==
    LET pos == cm.grid_position[direction] + 1
    IN  IF R(pos) # cm.length[direction] /\ RLe(cm.length[direction], R(pos))
        THEN IF cm.end_reached = "False" \/ cm.end_reached = direction
             THEN direction
             ELSE "True"
        ELSE cm.end_reached

\* variant that ends the walk as soon as one direction reaches its length
next_end_reached_first(cm, direction) ==
    LET pos == cm.grid_position[direction] + 1
    IN  IF RLe(cm.length[direction], R(pos))
        THEN "True"
        ELSE cm.end_reached

next_end_reached(cm, direction) ==
    LET pos == cm.grid_position[direction] + 1
    IN  IF RLe(cm.length[direction], R(pos))
        THEN IF cm.end_reached = "False" \/ cm.end_reached = direction
             THEN direction
             ELSE "True"
        ELSE cm.end_reached

\* variant that increments both axes
next_grid_position_both(cm, direction) ==
    [d \in Directions |-> cm.grid_position[d] + 1]

next_grid_position(cm, direction) ==
    [cm.grid_position EXCEPT ![direction] = @ + 1]

\* lines 193-202: sidewalk_position on the new block
\* variant with the two lower_right destinations exchanged
next_sidewalk_position_swapped(cm, direction) ==
    IF cm.sidewalk_position = "upper_right" THEN "upper_left"
    ELSE IF cm.sidewalk_position = "lower_left" THEN "upper_left"
    ELSE IF direction = "x" THEN "upper_right" ELSE "lower_left"

\* variant that leaves a side corner for lower_right / upper_right
next_sidewalk_position_side(cm, direction) ==
    IF cm.sidewalk_position = "upper_right" THEN "lower_right"
    ELSE IF cm.sidewalk_position = "lower_left" THEN "upper_right"
    ELSE IF direction = "x" THEN "lower_left" ELSE "upper_right"

next_sidewalk_position(cm, direction) ==
    IF cm.sidewalk_position = "upper_right" THEN "upper_left"
    ELSE IF cm.sidewalk_position = "lower_left" THEN "upper_left"
    ELSE IF direction = "x" THEN "lower_left" ELSE "upper_right"

\* lines 204-215: propagate the lights attached to the new block, clear the rest
\* variant that does not clear lower_right
next_traffic_light_segments_keep(cm, direction) ==
    LET tls == cm.traffic_light_segments
    IN  IF direction = "x"
        THEN [upper_left |-> tls["upper_right"], lower_left |-> tls["lower_right"],
              upper_right |-> NoLight, lower_right |-> tls["lower_right"]]
        ELSE [upper_left |-> tls["lower_left"], upper_right |-> tls["lower_right"],
              lower_left |-> NoLight, lower_right |-> tls["lower_right"]]

next_traffic_light_segments(cm, direction) ==
    LET tls == cm.traffic_light_segments
    IN  IF direction = "x"
        THEN [upper_left |-> tls["upper_right"], lower_left |-> tls["lower_right"],
              upper_right |-> NoLight, lower_right |-> NoLight]
        ELSE [upper_left |-> tls["lower_left"], upper_right |-> tls["lower_right"],
              lower_left |-> NoLight, lower_right |-> NoLight]

new_sidewalk_block(cm, direction, id, s) ==
    [cm EXCEPT !.sidewalk_segment = next_block(cm, direction, id, s),
               !.grid_position = next_grid_position(cm, direction),
               !.end_reached = next_end_reached(cm, direction),
               !.sidewalk_position = next_sidewalk_position(cm, direction),
               !.traffic_light_segments = next_traffic_light_segments(cm, direction)]

\* lines 226-249: the lengths a new light copies from grid-aligned lights
\* variant that copies no length from the neighbouring lights
light_args_unmatched(cm) == NoLightArgs

light_args(cm) ==
    LET tls == cm.traffic_light_segments
        pos == cm.sidewalk_position
        y_from == CASE pos = "lower_right" -> "lower_left"
                    [] pos = "upper_right" -> "upper_left"
                    [] pos = "lower_left" -> "lower_right"
                    [] pos = "upper_left" -> "upper_right"
        x_from == CASE pos = "lower_right" -> "upper_right"
                    [] pos = "upper_right" -> "lower_right"
                    [] pos = "lower_left" -> "upper_left"
                    [] pos = "upper_left" -> "lower_left"
    IN  [NoLightArgs EXCEPT
            !.y_length = IF tls[y_from] # NoLight THEN tls[y_from].y_length ELSE None,
            !.x_length = IF tls[x_from] # NoLight THEN tls[x_from].x_length ELSE None]

\* variant of get_current_traffic_light that creates a light on every call
get_current_traffic_light_uncached(cm, id, s) ==
    [cm EXCEPT !.traffic_light_segments[cm.sidewalk_position] =
         traffic_light(id, light_args(cm), s)]

get_current_traffic_light(cm, id, s) ==
    IF cm.traffic_light_segments[cm.sidewalk_position] = NoLight
    THEN [cm EXCEPT !.traffic_light_segments[cm.sidewalk_position] =
              traffic_light(id, light_args(cm), s)]
    ELSE cm

current_light(cm) == cm.traffic_light_segments[cm.sidewalk_position]

-----------------------------------------------------------------------------
(* Values the bounded samplers (random.uniform) may return *)

\* grid lengths, overridden as in the tests: whole numbers and one that is not
GridLengths == {R(k) : k \in 1 .. MaxExtent} \cup {Q(3, 2)}
CrosswalkLengths == {R(5), R(30)}                       \* CROSSWALK_LENGTH
CrosswalkDurations == {R(61), R(200)}                   \* CROSSWALK_DURATION
SidewalkLengths == {R(50), R(150)}                      \* SIDEWALK_LENGTH
WalkingVelocities == {Q(1, 2), R(5)}                    \* WALKING_VELOCITY
WaitTimes == {R(0), R(100), R(250)}                             \* WAIT_TIME

\* samples drawn during a walk: the clock depends on durations and phases
LightSamples ==
    [x_length : {R(30)}, y_length : {R(5)},
     x_signal_duration : CrosswalkDurations, y_signal_duration : {R(61)},
     initial_state : {Q(3, 2)}]
BlockSamples == [x_length : {R(150)}, y_length : {R(50)}]

-----------------------------------------------------------------------------
(* class simulation *)

\* monte_carlo.log as constructed: no entry under either key
NoLog == [choice_wait_time |-> <<>>, cumulative_time_waiting_per_light |-> <<>>]

NoProbe == [stage |-> "none"]
NoLast == [op |-> "init"]

\* simulation.__init__, with the grid lengths overridden as the tests do
Init ==
    /\ \E lx \in GridLengths, ly \in GridLengths, b \in BlockSamples :
          city_map = new_city_map(1, [x_length |-> lx, y_length |-> ly],
                                  [x_length |-> None, y_length |-> None, block |-> b])
    /\ \E v \in WalkingVelocities, w \in WaitTimes :
          pedestrian = new_pedestrian(NoPedestrianArgs,
                                      [velocity |-> v, choice_wait_time |-> w])
    /\ time = R(0)
    /\ cumulative_time_waiting_at_lights = R(0)
    /\ cumulative_lights_waited_at = 0
    /\ pc = "running"
    /\ next_id = 2
    /\ last = NoLast
    /\ probe = NoProbe
    /\ grid_ops = 0
    /\ log = NoLog

\* the history record of one simulation_step
Last(op, direction, wait) ==
    [op |-> op, direction |-> direction, wait |-> wait,
     corner |-> city_map.sidewalk_position,
     city_map |-> city_map,
     waited_at |-> cumulative_lights_waited_at,
     time_waiting |-> cumulative_time_waiting_at_lights,
     time |-> time,
     steps |-> IF last.op = "init" THEN 1 ELSE last.steps + 1]

\* simulation.cross_sidewalk from map cm at time t
\* variant of cross_sidewalk that also moves on to a new sidewalk_block
cross_sidewalk_advancing(cm, t, direction, destination, id) ==
    /\ time' = RAdd(t, block_time_to_cross(cm.sidewalk_segment, direction,
                                           pedestrian.velocity))
    /\ city_map' = [new_sidewalk_block(cm, direction, id,
                                       [x_length |-> R(150), y_length |-> R(50)])
                       EXCEPT !.sidewalk_position = destination]
    /\ next_id' = id + 1

cross_sidewalk(cm, t, direction, destination, id) ==
    /\ time' = RAdd(t, block_time_to_cross(cm.sidewalk_segment, direction,
                                           pedestrian.velocity))
    /\ city_map' = [cm EXCEPT !.sidewalk_position = destination]
    /\ next_id' = id

\* simulation.cross_traffic_light from map cm at time t; s, b are the samples
\* a new traffic_light and the new sidewalk_block draw
\* variant of cross_traffic_light that takes the crossing time of the other direction
cross_traffic_light_other_length(cm, t, direction, id, s, b) ==
    \E cm1 \in {get_current_traffic_light(cm, id, s)} :
    \E id1 \in {IF cm1 = cm THEN id ELSE id + 1} :
        /\ time' = RAdd(t, light_time_to_cross(current_light(cm1),
                                               other_direction[direction],
                                               pedestrian.velocity))
        /\ city_map' = new_sidewalk_block(cm1, direction, id1, b)
        /\ next_id' = id1 + 1

cross_traffic_light(cm, t, direction, id, s, b) ==
    \E cm1 \in {get_current_traffic_light(cm, id, s)} :
    \E id1 \in {IF cm1 = cm THEN id ELSE id + 1} :
        /\ time' = RAdd(t, light_time_to_cross(current_light(cm1), direction,
                                               pedestrian.velocity))
        /\ city_map' = new_sidewalk_block(cm1, direction, id1, b)
        /\ next_id' = id1 + 1

\* lines 304-306: the light at the current corner, its state set from the clock
consult_light(cm, id, s, t) ==
    LET cm1 == get_current_traffic_light(cm, id, s)
    IN  [cm1 EXCEPT !.traffic_light_segments[cm.sidewalk_position] =
             set_state(current_light(cm1), t)]

\* line 275: while self.city_map.end_reached != True
\* variant: while not end_reached
loop_condition_falsy(cm) == cm.end_reached = "False"

loop_condition(cm) == cm.end_reached # "True"

Running == pc = "running" /\ loop_condition(city_map)

\* lines 311, 329, 363: self.cumulative_lights_waited_at += 1
\* variant that logs a light only when the wait is positive
lights_waited_at_if_waited(n, wait) == IF RLt(R(0), wait) THEN n + 1 ELSE n

lights_waited_at(n, wait) == n + 1

StepUpperLeft ==
    /\ Running
    /\ city_map.sidewalk_position = "upper_left"
    /\ \E choice \in Directions :
          LET direction == IF city_map.end_reached = "False"
                           THEN choice
                           ELSE other_direction[city_map.end_reached]
              destination == IF direction = "x" THEN "upper_right" ELSE "lower_left"
          IN  /\ cross_sidewalk(city_map, time, direction, destination, next_id)
              /\ last' = Last("cross_sidewalk", direction, R(0))
    /\ UNCHANGED <<pedestrian, cumulative_time_waiting_at_lights,
                   cumulative_lights_waited_at, pc, probe, grid_ops, log>>

\* lines 302, 320: the test made at a side corner before its light is consulted
\* variant that consults the light whatever end_reached is
can_travel_farther_always(end_reached, direction) == TRUE

can_travel_farther(end_reached, direction) == end_reached # direction

StepLowerLeft ==
    /\ Running
    /\ city_map.sidewalk_position = "lower_left"
    /\ IF can_travel_farther(city_map.end_reached, "y")
       THEN \E s \in LightSamples, b \in BlockSamples :
            \E cm \in {consult_light(city_map, next_id, s, time)},
               id \in {IF current_light(city_map) = NoLight
                       THEN next_id + 1 ELSE next_id} :
            \E cross_wait_time \in
                   {time_until_can_cross(current_light(cm), "y", pedestrian.velocity)} :
                IF would_choose_to_wait_for_light(pedestrian, cross_wait_time)
                THEN /\ cumulative_time_waiting_at_lights' =
                            RAdd(cumulative_time_waiting_at_lights, cross_wait_time)
                     /\ cumulative_lights_waited_at' =
                            lights_waited_at(cumulative_lights_waited_at, cross_wait_time)
                     /\ cross_traffic_light(cm, RAdd(time, cross_wait_time), "y",
                                            id, s, b)
                     /\ last' = Last("cross_traffic_light", "y", cross_wait_time)
                ELSE /\ cross_sidewalk(cm, time, "x", "lower_right", id)
                     /\ last' = Last("cross_sidewalk", "x", R(0))
                     /\ UNCHANGED <<cumulative_time_waiting_at_lights,
                                    cumulative_lights_waited_at>>
       ELSE /\ cross_sidewalk(city_map, time, "x", "lower_right", next_id)
            /\ last' = Last("cross_sidewalk", "x", R(0))
            /\ UNCHANGED <<cumulative_time_waiting_at_lights,
                           cumulative_lights_waited_at>>
    /\ UNCHANGED <<pedestrian, pc, probe, grid_ops, log>>

StepUpperRight ==
    /\ Running
    /\ city_map.sidewalk_position = "upper_right"
    /\ IF can_travel_farther(city_map.end_reached, "x")
       THEN \E s \in LightSamples, b \in BlockSamples :
            \E cm \in {consult_light(city_map, next_id, s, time)},
               id \in {IF current_light(city_map) = NoLight
                       THEN next_id + 1 ELSE next_id} :
            \E cross_wait_time \in
                   {time_until_can_cross(current_light(cm), "x", pedestrian.velocity)} :
                IF would_choose_to_wait_for_light(pedestrian, cross_wait_time)
                THEN /\ cumulative_time_waiting_at_lights' =
                            RAdd(cumulative_time_waiting_at_lights, cross_wait_time)
                     /\ cumulative_lights_waited_at' =
                            lights_waited_at(cumulative_lights_waited_at, cross_wait_time)
                     /\ cross_traffic_light(cm, RAdd(time, cross_wait_time), "x",
                                            id, s, b)
                     /\ last' = Last("cross_traffic_light", "x", cross_wait_time)
                ELSE /\ cross_sidewalk(cm, time, "y", "lower_right", id)
                     /\ last' = Last("cross_sidewalk", "y", R(0))
                     /\ UNCHANGED <<cumulative_time_waiting_at_lights,
                                    cumulative_lights_waited_at>>
       ELSE /\ cross_sidewalk(city_map, time, "y", "lower_right", next_id)
            /\ last' = Last("cross_sidewalk", "y", R(0))
            /\ UNCHANGED <<cumulative_time_waiting_at_lights,
                           cumulative_lights_waited_at>>
    /\ UNCHANGED <<pedestrian, pc, probe, grid_ops, log>>

\* lines 346-353: the direction crossed at the lower_right corner
\* variant that always takes the shorter wait
lower_right_direction_shorter_wait(end_reached, cross_wait_time_x, cross_wait_time_y) ==
    IF RLe(cross_wait_time_x, cross_wait_time_y) THEN "x" ELSE "y"

lower_right_direction(end_reached, cross_wait_time_x, cross_wait_time_y) ==
    IF end_reached # "False"
    THEN other_direction[end_reached]
    ELSE IF RLe(cross_wait_time_x, cross_wait_time_y) THEN "x" ELSE "y"

StepLowerRight ==
    /\ Running
    /\ city_map.sidewalk_position = "lower_right"
    /\ \E s \in LightSamples, b \in BlockSamples :
          \E cm \in {consult_light(city_map, next_id, s, time)},
             id \in {IF current_light(city_map) = NoLight THEN next_id + 1 ELSE next_id} :
          \E cross_wait_time_x \in
                 {time_until_can_cross(current_light(cm), "x", pedestrian.velocity)},
             cross_wait_time_y \in
                 {time_until_can_cross(current_light(cm), "y", pedestrian.velocity)} :
          \E direction \in {lower_right_direction(city_map.end_reached,
                                                  cross_wait_time_x, cross_wait_time_y)} :
          \E cross_wait_time \in {IF direction = "x" THEN cross_wait_time_x
                                   ELSE cross_wait_time_y} :
              /\ cumulative_time_waiting_at_lights' =
                     RAdd(cumulative_time_waiting_at_lights, cross_wait_time)
              /\ cumulative_lights_waited_at' =
                          lights_waited_at(cumulative_lights_waited_at, cross_wait_time)
              /\ cross_traffic_light(cm, RAdd(time, cross_wait_time), direction, id, s, b)
              /\ last' = Last("cross_traffic_light", direction, cross_wait_time)
    /\ UNCHANGED <<pedestrian, pc, probe, grid_ops, log>>

\* simulate(): the while loop ends
SimulateReturn ==
    /\ pc = "running"
    /\ ~loop_condition(city_map)
    /\ pc' = "done"
    /\ UNCHANGED <<city_map, pedestrian, time, cumulative_time_waiting_at_lights,
                   cumulative_lights_waited_at, next_id, last, probe, grid_ops, log>>

\* variant of cumulative_time_waiting_per_light that logs the undivided total
cumulative_time_waiting_total(time_waiting, lights_waited_at_) == time_waiting

\* the quotient run_simulations logs for one simulation
cumulative_time_waiting_per_light(time_waiting, lights_waited_at_) ==
    RDiv(time_waiting, R(lights_waited_at_))

\* run_simulations after simulate() returned: the two appends to the log; the
\* division is not guarded, so a zero count raises after the first append
RunSimulationsLog ==
    /\ pc = "done"
    /\ IF cumulative_lights_waited_at = 0
       THEN /\ pc' = "ZeroDivisionError"
            /\ log' = [log EXCEPT !.choice_wait_time =
                                      Append(@, pedestrian.choice_wait_time)]
       ELSE /\ pc' = "logged"
            /\ log' = [choice_wait_time |->
                           Append(log.choice_wait_time, pedestrian.choice_wait_time),
                       cumulative_time_waiting_per_light |->
                           Append(log.cumulative_time_waiting_per_light,
                                  cumulative_time_waiting_per_light(
                                      cumulative_time_waiting_at_lights,
                                      cumulative_lights_waited_at))]
    /\ UNCHANGED <<city_map, pedestrian, time, cumulative_time_waiting_at_lights,
                   cumulative_lights_waited_at, next_id, last, probe, grid_ops>>

Next ==
    \/ StepUpperLeft
    \/ StepLowerLeft
    \/ StepUpperRight
    \/ StepLowerRight
    \/ SimulateReturn
    \/ RunSimulationsLog

Spec == Init /\ [][Next]_vars

\* simulate() is a sequential loop: a step that can be taken is taken
FairSpec == Spec /\ WF_vars(Next)

-----------------------------------------------------------------------------
(* A city_map driven directly, as Tests.test_city_map does *)

GridLightSamples ==
    [x_length : CrosswalkLengths, y_length : CrosswalkLengths,
     x_signal_duration : {R(61)}, y_signal_duration : {R(61)},
     initial_state : {Q(1, 2)}]
GridBlockSamples ==
    {[x_length |-> R(150), y_length |-> R(50)], [x_length |-> R(50), y_length |-> R(150)]}

GridInit ==
    /\ \E lx \in GridLengths, ly \in {R(MaxExtent)} :
          city_map = new_city_map(1, [x_length |-> lx, y_length |-> ly],
                                  [x_length |-> None, y_length |-> None,
                                   block |-> [x_length |-> R(50), y_length |-> R(150)]])
    /\ pedestrian = [velocity |-> R(1), choice_wait_time |-> R(0)]
    /\ time = R(0)
    /\ cumulative_time_waiting_at_lights = R(0)
    /\ cumulative_lights_waited_at = 0
    /\ pc = "test"
    /\ next_id = 2
    /\ last = NoLast
    /\ probe = NoProbe
    /\ grid_ops = 0
    /\ log = NoLog

GridFrame ==
    UNCHANGED <<pedestrian, time, cumulative_time_waiting_at_lights,
                cumulative_lights_waited_at, pc, probe, log>>

\* cm.sidewalk_position = corner; cm.get_current_traffic_light()
GridGetCurrentTrafficLight ==
    /\ pc = "test"
    /\ grid_ops < MaxGridOps
    /\ \E corner \in Corners, s \in GridLightSamples :
          LET cm == [city_map EXCEPT !.sidewalk_position = corner]
          IN  /\ city_map' = get_current_traffic_light(cm, next_id, s)
              /\ next_id' = IF current_light(cm) = NoLight THEN next_id + 1 ELSE next_id
              /\ last' = [op |-> "get_current_traffic_light", city_map |-> cm]
    /\ grid_ops' = grid_ops + 1
    /\ GridFrame

\* cm.new_sidewalk_block(direction)
GridNewSidewalkBlock ==
    /\ pc = "test"
    /\ grid_ops < MaxGridOps
    /\ \E direction \in Directions, b \in GridBlockSamples :
          /\ city_map' = new_sidewalk_block(city_map, direction, next_id, b)
          /\ last' = [op |-> "new_sidewalk_block", direction |-> direction,
                      city_map |-> city_map]
    /\ next_id' = next_id + 1
    /\ grid_ops' = grid_ops + 1
    /\ GridFrame

\* new_sidewalk_block with a direction that is neither 'x' nor 'y': the else
\* branch of line 179 replaces sidewalk_segment, then grid_position[direction]
\* raises KeyError at line 186 and the rest of the method is not executed
new_sidewalk_block_raises(cm, direction, id, s) ==
    [cm EXCEPT !.sidewalk_segment = next_block(cm, direction, id, s)]

InvalidDirections == {"z"}

\* cm.new_sidewalk_block(direction) with an invalid direction
GridNewSidewalkBlockInvalid ==
    /\ pc = "test"
    /\ grid_ops < MaxGridOps
    /\ \E direction \in InvalidDirections :
          /\ city_map' = new_sidewalk_block_raises(city_map, direction, next_id,
                                                   [x_length |-> R(50), y_length |-> R(50)])
          /\ last' = [op |-> "new_sidewalk_block_raised", direction |-> direction,
                      city_map |-> city_map]
    /\ pc' = "KeyError"
    /\ next_id' = next_id + 1
    /\ grid_ops' = grid_ops + 1
    /\ UNCHANGED <<pedestrian, time, cumulative_time_waiting_at_lights,
                   cumulative_lights_waited_at, probe, log>>

GridNext ==
    \/ GridGetCurrentTrafficLight
    \/ GridNewSidewalkBlock
    \/ GridNewSidewalkBlockInvalid

GridSpec == GridInit /\ [][GridNext]_vars

-----------------------------------------------------------------------------
(* A traffic_light driven directly, as Tests.test_traffic_light does *)

ProbeDurations == {R(7), R(11), Q(5, 2)}
ProbeStates == {R(0), Q(1, 2), Q(9, 10), R(1), Q(3, 2), Q(19, 10)}
ProbeVelocities == {Q(1, 10), R(1), R(2)}
ProbeTimes == {Q(k, 2) : k \in 0 .. 2 * MaxProbeTime}

\* light = traffic_light(x_length=3, y_length=5, x_signal_duration=.., ..)
ProbeInit ==
    /\ city_map = new_city_map(1, [x_length |-> R(3), y_length |-> R(5)],
                               [x_length |-> None, y_length |-> None,
                                block |-> [x_length |-> R(50), y_length |-> R(150)]])
    /\ pedestrian = [velocity |-> R(1), choice_wait_time |-> R(0)]
    /\ time = R(0)
    /\ cumulative_time_waiting_at_lights = R(0)
    /\ cumulative_lights_waited_at = 0
    /\ pc = "test"
    /\ next_id = 3
    /\ last = NoLast
    /\ grid_ops = 0
    /\ log = NoLog
    /\ \E xd \in ProbeDurations, yd \in ProbeDurations, st \in ProbeStates :
          \E light \in {traffic_light(2,
                            [x_length |-> R(3), y_length |-> R(5),
                             x_signal_duration |-> xd, y_signal_duration |-> yd,
                             initial_state |-> st],
                            [x_length |-> None, y_length |-> None,
                             x_signal_duration |-> None, y_signal_duration |-> None,
                             initial_state |-> Q(1, 4)])} :
              probe = [stage |-> "new", time |-> R(0), light |-> light, fresh |-> light]

ProbeFrame ==
    UNCHANGED <<city_map, pedestrian, time, cumulative_time_waiting_at_lights,
                cumulative_lights_waited_at, pc, next_id, last, grid_ops, log>>

\* light.set_state(t)
ProbeSetState ==
    /\ \E t \in ProbeTimes :
          probe' = [stage |-> "set", time |-> t, light |-> set_state(probe.light, t),
                    fresh |-> probe.fresh]
    /\ ProbeFrame

\* light.set_initial_time_offset(initial_state = s); light.set_state(0)
ProbeSetInitialTimeOffset ==
    /\ \E s \in ProbeStates :
          \E light \in {set_state(set_initial_time_offset(probe.light, s), R(0))} :
             probe' = [stage |-> "offset", time |-> R(0), s |-> s,
                       light |-> light, fresh |-> light]
    /\ ProbeFrame

\* light.set_state(t) followed by light.set_state(t + x_signal_duration + y_signal_duration)
ProbeSetStateNextCycle ==
    /\ probe.stage = "set"
    /\ \E t \in {RAdd(probe.time, RAdd(probe.light.x_signal_duration,
                                       probe.light.y_signal_duration))} :
          probe' = [stage |-> "cycled", time |-> t, light |-> set_state(probe.light, t),
                    before |-> probe.light, fresh |-> probe.fresh]
    /\ ProbeFrame

\* w = light.time_until_can_cross(direction, velocity); light.set_state(t + w)
ProbeTimeUntilCanCross ==
    /\ probe.stage = "set"
    /\ \E direction \in Directions, velocity \in ProbeVelocities :
          LET w == time_until_can_cross(probe.light, direction, velocity)
          IN  probe' = [stage |-> "waited", time |-> RAdd(probe.time, w),
                        light |-> set_state(probe.light, RAdd(probe.time, w)),
                        before |-> probe.light,
                        direction |-> direction, velocity |-> velocity, wait |-> w,
                        enough |-> enough_time_to_cross(probe.light, direction, velocity),
                        cross_wait_time_x |->
                            time_until_can_cross(probe.light, "x", velocity),
                        cross_wait_time_y |->
                            time_until_can_cross(probe.light, "y", velocity),
                        fresh |-> probe.fresh]
    /\ ProbeFrame

ProbeNext ==
    \/ ProbeSetState
    \/ ProbeTimeUntilCanCross
    \/ ProbeSetStateNextCycle
    \/ ProbeSetInitialTimeOffset

ProbeSpec == ProbeInit /\ [][ProbeNext]_vars

-----------------------------------------------------------------------------
(* Properties *)

IsWhole(q) == q[2] = 1

C3_Terminates ==
    /\ <>(pc = "done")
    /\ [](pc = "done" => city_map.end_reached = "True")

C3_Witness ==
    /\ pc = "done"
    /\ city_map.grid_position["x"] >= 3
    /\ city_map.grid_position["y"] >= 2

\* C4: with whole grid lengths, a finished walk has end_reached == True and
\* grid_position equal to length on both axes.
C4_PositionEqualsLength ==
    (pc = "done" /\ IsWhole(city_map.length["x"]) /\ IsWhole(city_map.length["y"]))
    => /\ city_map.end_reached = "True"
       /\ R(city_map.grid_position["x"]) = city_map.length["x"]
       /\ R(city_map.grid_position["y"]) = city_map.length["y"]

Slot(c) == city_map.traffic_light_segments[c]
Occupied(c) == Slot(c) # NoLight
Advanced == last.op = "new_sidewalk_block"
Before == last.city_map

\* C5: any two occupied slots that share an edge have equal length on the
\* shared axis, after any sequence of materializations and advances.
C5_SharedEdgesMatch ==
    /\ (Occupied("upper_left") /\ Occupied("upper_right"))
          => Slot("upper_left").y_length = Slot("upper_right").y_length
    /\ (Occupied("upper_right") /\ Occupied("lower_right"))
          => Slot("upper_right").x_length = Slot("lower_right").x_length
    /\ (Occupied("lower_right") /\ Occupied("lower_left"))
          => Slot("lower_right").y_length = Slot("lower_left").y_length
    /\ (Occupied("lower_left") /\ Occupied("upper_left"))
          => Slot("lower_left").x_length = Slot("upper_left").x_length

\* after an advance, a light materialized next to two propagated lights whose
\* other lengths differ from its own
C5_Witness ==
    /\ last.op = "get_current_traffic_light"
    /\ city_map.grid_position["x"] + city_map.grid_position["y"] > 2
    /\ Occupied("upper_left") /\ Occupied("upper_right") /\ Occupied("lower_left")
    /\ ~Occupied("lower_right")
    /\ Before.traffic_light_segments["upper_right"] = NoLight
    /\ Slot("upper_right").x_length # Slot("upper_left").x_length

\* C6: every advance replaces the block by a new one whose length on the axis
\* perpendicular to the advance equals the replaced block's.
C6_PerpendicularLengthKept ==
    Advanced =>
        /\ city_map.sidewalk_segment.id # Before.sidewalk_segment.id
        /\ last.direction = "x" =>
              city_map.sidewalk_segment.y_length = Before.sidewalk_segment.y_length
        /\ last.direction = "y" =>
              city_map.sidewalk_segment.x_length = Before.sidewalk_segment.x_length

\* a second advance, the length along the advance freshly drawn and different
C6_Witness ==
    /\ Advanced
    /\ last.direction = "y"
    /\ city_map.grid_position["x"] > 1
    /\ city_map.sidewalk_segment.y_length # Before.sidewalk_segment.y_length
    /\ city_map.sidewalk_segment.x_length = Before.sidewalk_segment.x_length

\* C7: an advance from upper_right or lower_left lands on upper_left for either
\* axis, from lower_right on lower_left for x and upper_right for y; the corner
\* is always one of the four.
C7_CornerRotation ==
    /\ city_map.sidewalk_position \in Corners
    /\ Advanced =>
        /\ Before.sidewalk_position \in {"upper_right", "lower_left"}
              => city_map.sidewalk_position = "upper_left"
        /\ (Before.sidewalk_position = "lower_right" /\ last.direction = "x")
              => city_map.sidewalk_position = "lower_left"
        /\ (Before.sidewalk_position = "lower_right" /\ last.direction = "y")
              => city_map.sidewalk_position = "upper_right"

C7_Witness ==
    /\ Advanced
    /\ Before.sidewalk_position = "lower_right"
    /\ last.direction = "y"
    /\ city_map.sidewalk_position = "upper_right"

\* C8: an advance adds exactly 1 to grid_position on its axis and leaves the
\* other axis; when the new position reaches the length, end_reached becomes
\* the axis if it was False or the axis, and True if it was the other axis;
\* otherwise end_reached is unchanged.
C8_PositionAndEndReached ==
    Advanced =>
        LET d == last.direction
            o == other_direction[d]
            reached == RLe(city_map.length[d], R(city_map.grid_position[d]))
        IN  /\ city_map.grid_position[d] = Before.grid_position[d] + 1
            /\ city_map.grid_position[o] = Before.grid_position[o]
            /\ (reached /\ Before.end_reached \in {"False", d})
                  => city_map.end_reached = d
            /\ (reached /\ Before.end_reached = o) => city_map.end_reached = "True"
            /\ ~reached => city_map.end_reached = Before.end_reached

\* the second axis reaches its length
C8_Witness ==
    /\ Advanced
    /\ last.direction = "y"
    /\ Before.end_reached = "x"
    /\ city_map.end_reached = "True"
    /\ city_map.grid_position["y"] > 2

\* C9: advance('x') moves upper_right to upper_left and lower_right to
\* lower_left and empties upper_right and lower_right; advance('y') moves
\* lower_left to upper_left and lower_right to upper_right and empties
\* lower_left and lower_right.
C9_SlotPropagation ==
    Advanced =>
        LET old == Before.traffic_light_segments
        IN  /\ last.direction = "x" =>
                  /\ Slot("upper_left") = old["upper_right"]
                  /\ Slot("lower_left") = old["lower_right"]
                  /\ Slot("upper_right") = NoLight
            /\ last.direction = "y" =>
                  /\ Slot("upper_left") = old["lower_left"]
                  /\ Slot("upper_right") = old["lower_right"]
                  /\ Slot("lower_left") = NoLight
            /\ Slot("lower_right") = NoLight

\* both forward slots and one slot behind were occupied before the advance
C9_Witness ==
    /\ Advanced
    /\ last.direction = "x"
    /\ \A c \in {"upper_right", "lower_right", "lower_left"} :
          Before.traffic_light_segments[c] # NoLight
    /\ Before.traffic_light_segments["upper_right"] # Before.traffic_light_segments["lower_left"]
    /\ Slot("upper_left") = Before.traffic_light_segments["upper_right"]
    /\ Slot("lower_left") = Before.traffic_light_segments["lower_right"]

\* C10: each step that crosses a traffic light (replacing the block) adds
\* exactly 1 to cumulative_lights_waited_at, also when the wait is 0; each step
\* that crosses a sidewalk leaves it; cumulative_time_waiting_at_lights never
\* decreases.
C10_WaitLog ==
    last.op # "init" =>
        LET crossed_light == city_map.sidewalk_segment.id # Before.sidewalk_segment.id
        IN  /\ crossed_light => cumulative_lights_waited_at = last.waited_at + 1
            /\ ~crossed_light => cumulative_lights_waited_at = last.waited_at
            /\ RLe(last.time_waiting, cumulative_time_waiting_at_lights)

\* a light crossed with a wait of 0 after one crossed with a positive wait
C10_Witness ==
    /\ last.op = "cross_traffic_light"
    /\ last.wait = R(0)
    /\ RLt(R(0), cumulative_time_waiting_at_lights)
    /\ cumulative_lights_waited_at >= 2

\* the time left in the current phase of a light, from its state and durations
Remaining(light) ==
    IF RLt(light.state, R(1))
    THEN RMul(RSub(R(1), light.state), light.x_signal_duration)
    ELSE RMul(RSub(R(2), light.state), light.y_signal_duration)

Waited == probe.stage = "waited"

\* C11 as claimed: time_until_can_cross(d, v) is 0 exactly when
\* enough_time_to_cross(d, v) is true, and positive otherwise.
C11_ZeroIffEnoughTime ==
    Waited => /\ (probe.wait = R(0)) <=> probe.enough
              /\ ~probe.enough => RLt(R(0), probe.wait)

\* C11 amended: time_until_can_cross(d, v) is 0 exactly when d is the current
\* crossing direction and enough_time_to_cross(d, v) is true, and positive in
\* every other case.
C11_ZeroIffCurrentAndEnoughTime ==
    Waited =>
        LET can_cross_now ==
                current_crossing_direction(probe.before) = probe.direction /\ probe.enough
        IN  /\ (probe.wait = R(0)) <=> can_cross_now
            /\ ~can_cross_now => RLt(R(0), probe.wait)

\* enough time for a direction that is not crossing: the wait is positive
C11_Witness ==
    /\ Waited
    /\ probe.enough
    /\ current_crossing_direction(probe.before) # probe.direction
    /\ RLt(R(0), probe.wait)

\* C12 as claimed: enough_time_to_cross(d, v) is true iff d is the current
\* crossing direction and the crossing time fits in the time until the switch.
C12_EnoughIffCurrentAndFits ==
    Waited =>
        (probe.enough <=>
            /\ current_crossing_direction(probe.before) = probe.direction
            /\ RLe(RDiv(IF probe.direction = "x" THEN probe.before.x_length
                        ELSE probe.before.y_length, probe.velocity),
                   Remaining(probe.before)))

\* C12 amended: enough_time_to_cross(d, v) is true iff the crossing time of d
\* fits in the time until the switch; it does not compare d with the current
\* crossing direction.
C12_EnoughIffFits ==
    Waited =>
        (probe.enough <=>
            RLe(RDiv(IF probe.direction = "x" THEN probe.before.x_length
                     ELSE probe.before.y_length, probe.velocity),
                Remaining(probe.before)))

\* true for the direction that is not crossing, and an exact fit for the one that is
C12_Witness ==
    /\ Waited
    /\ probe.enough
    /\ \/ current_crossing_direction(probe.before) # probe.direction
       \/ RDiv(probe.before.x_length, probe.velocity) = Remaining(probe.before)

----------------------------------------------------------------------------
\* The constructors on their own: each class is constructed with explicit
\* arguments drawn from the documented ranges (or left out), and the object's
\* attributes are read back.

ConstructSample ==
    [x_length |-> Q(35, 2), y_length |-> Q(35, 2),
     x_signal_duration |-> R(100), y_signal_duration |-> R(100),
     initial_state |-> Q(3, 2), velocity |-> R(2), choice_wait_time |-> R(125),
     block |-> [x_length |-> R(100), y_length |-> R(100)]]

ExplicitLightArgs ==
    [x_length : {None, R(5), R(30)}, y_length : {None, R(5)},
     x_signal_duration : {None, R(61)}, y_signal_duration : {None, R(200)},
     initial_state : {None, R(0), Q(1, 2), R(1)}]
ExplicitBlockArgs == [x_length : {None, R(50), R(150)}, y_length : {None, R(50), R(150)}]
ExplicitPedestrianArgs ==
    [velocity : {None, Q(1, 2), R(5)}, choice_wait_time : {None, R(0), R(100), R(250)}]
ExplicitMapArgs == [x_length : {None, R(5), R(20)}, y_length : {None, R(5), R(20)}]

ConstructInit ==
    /\ city_map = new_city_map(1, [x_length |-> R(1), y_length |-> R(1)], ConstructSample)
    /\ pedestrian = new_pedestrian(NoPedestrianArgs, ConstructSample)
    /\ time = R(0)
    /\ cumulative_time_waiting_at_lights = R(0)
    /\ cumulative_lights_waited_at = 0
    /\ pc = "test"
    /\ next_id = 2
    /\ last = NoLast
    /\ probe = NoProbe
    /\ grid_ops = 0
    /\ log = NoLog

ConstructFrame ==
    UNCHANGED <<city_map, pedestrian, time, cumulative_time_waiting_at_lights,
                cumulative_lights_waited_at, pc, next_id, last, grid_ops, log>>

ConstructTrafficLight ==
    /\ \E args \in ExplicitLightArgs :
          \E o \in {traffic_light(1, args, ConstructSample)} :
             probe' = [stage |-> "constructed", class |-> "traffic_light", given |-> args,
                       got |-> [x_length |-> o.x_length, y_length |-> o.y_length,
                                x_signal_duration |-> o.x_signal_duration,
                                y_signal_duration |-> o.y_signal_duration,
                                initial_state |-> o.state]]
    /\ ConstructFrame

ConstructSidewalkBlock ==
    /\ \E args \in ExplicitBlockArgs :
          \E o \in {sidewalk_block(1, args, ConstructSample)} :
             probe' = [stage |-> "constructed", class |-> "sidewalk_block", given |-> args,
                       got |-> [x_length |-> o.x_length, y_length |-> o.y_length]]
    /\ ConstructFrame

ConstructPedestrian ==
    /\ \E args \in ExplicitPedestrianArgs :
          \E o \in {new_pedestrian(args, ConstructSample)} :
             probe' = [stage |-> "constructed", class |-> "pedestrian", given |-> args,
                       got |-> [velocity |-> o.velocity,
                                choice_wait_time |-> o.choice_wait_time]]
    /\ ConstructFrame

ConstructCityMap ==
    /\ \E args \in ExplicitMapArgs :
          \E o \in {new_city_map(1, args, ConstructSample)} :
             probe' = [stage |-> "constructed", class |-> "city_map", given |-> args,
                       got |-> [x_length |-> o.length.x, y_length |-> o.length.y]]
    /\ ConstructFrame

ConstructNext ==
    \/ ConstructTrafficLight
    \/ ConstructSidewalkBlock
    \/ ConstructPedestrian
    \/ ConstructCityMap

ConstructSpec == ConstructInit /\ [][ConstructNext]_vars

\* C14: constructing a traffic_light, sidewalk_block, pedestrian or city_map
\* with an explicit value for an attribute yields an object whose attribute is
\* that value, for every value of the attribute's range (0 included).
C14_ExplicitValueKept ==
    probe.stage = "constructed" =>
        \A a \in DOMAIN probe.given :
            probe.given[a] # None => probe.got[a] = probe.given[a]

\* C15: new_sidewalk_block with a direction other than 'x' or 'y' is rejected,
\* and after the rejected call the city_map's sidewalk_segment, grid_position,
\* sidewalk_position, end_reached and traffic_light_segments are as before.
C15_InvalidDirectionLeavesMap ==
    last.op = "new_sidewalk_block_raised" =>
        /\ pc = "KeyError"
        /\ city_map.sidewalk_segment = last.city_map.sidewalk_segment
        /\ city_map.grid_position = last.city_map.grid_position
        /\ city_map.sidewalk_position = last.city_map.sidewalk_position
        /\ city_map.end_reached = last.city_map.end_reached
        /\ city_map.traffic_light_segments = last.city_map.traffic_light_segments

\* the number of simulation_step calls executed so far
Steps == IF last.op = "init" THEN 0 ELSE last.steps

\* C16: the number of steps a walk executes from its initial state until
\* end_reached is True never exceeds length x * length y * 4.
C16_StepBound ==
    RLe(R(Steps), RMul(RMul(city_map.length.x, city_map.length.y), R(4)))

\* the light a crossing step consulted: new_sidewalk_block moved it from the
\* corner the step left to the corner it landed on
Consulted == city_map.traffic_light_segments[city_map.sidewalk_position]

\* the direction in which the last step advanced the grid position
AdvancedDirection ==
    IF city_map.grid_position.x = Before.grid_position.x + 1 THEN "x" ELSE "y"

\* C17: at lower_right every step crosses the light and advances once: in the
\* direction other than the finished one when end_reached is 'x' or 'y',
\* otherwise in the direction with the smaller time_until_can_cross at the
\* current time, x when equal; the wait of that direction is added to time and
\* to cumulative_time_waiting_at_lights and cumulative_lights_waited_at grows by
\* one whatever choice_wait_time is; the pedestrian lands on lower_left for x
\* and on upper_right for y.
C17_LowerRightStep ==
    (last.op # "init" /\ last.corner = "lower_right") =>
        LET d == AdvancedDirection
            wait_x == time_until_can_cross(Consulted, "x", pedestrian.velocity)
            wait_y == time_until_can_cross(Consulted, "y", pedestrian.velocity)
            wait == IF d = "x" THEN wait_x ELSE wait_y
        IN  /\ last.op = "cross_traffic_light"
            /\ city_map.grid_position =
                   [Before.grid_position EXCEPT ![d] = @ + 1]
            /\ city_map.sidewalk_segment.id # Before.sidewalk_segment.id
            /\ Consulted # NoLight
            /\ Consulted = set_state(Consulted, last.time)
            /\ Before.end_reached = "x" => d = "y"
            /\ Before.end_reached = "y" => d = "x"
            /\ Before.end_reached = "False" =>
                   (d = "x" <=> RLe(wait_x, wait_y))
            /\ cumulative_time_waiting_at_lights = RAdd(last.time_waiting, wait)
            /\ cumulative_lights_waited_at = last.waited_at + 1
            /\ time = RAdd(RAdd(last.time, wait),
                           RDiv(IF d = "x" THEN Consulted.x_length ELSE Consulted.y_length,
                                pedestrian.velocity))
            /\ city_map.sidewalk_position =
                   (IF d = "x" THEN "lower_left" ELSE "upper_right")

\* a lower_right step with no direction finished that chose y for its shorter
\* wait, and waited longer than choice_wait_time
C17_Witness ==
    /\ last.op = "cross_traffic_light"
    /\ last.corner = "lower_right"
    /\ Before.end_reached = "False"
    /\ AdvancedDirection = "y"
    /\ city_map.sidewalk_position = "upper_right"
    /\ RLt(pedestrian.choice_wait_time, last.wait)
    /\ cumulative_lights_waited_at = last.waited_at + 1

\* the last step left a side corner (lower_left or upper_right)
FromSideCorner == last.op # "init" /\ last.corner \in {"lower_left", "upper_right"}

\* the direction of the light crossing offered at the corner the last step left
SideDirection == IF last.corner = "lower_left" THEN "y" ELSE "x"

\* the last step advanced the grid position in the offered direction
CrossedLight ==
    city_map.grid_position[SideDirection] = Before.grid_position[SideDirection] + 1

\* the light of the corner the last step left, where it is after the step
SideLight ==
    IF CrossedLight THEN city_map.traffic_light_segments["upper_left"]
    ELSE city_map.traffic_light_segments[last.corner]

\* C18: at lower_left (resp. upper_right) the step crosses the light along y
\* (resp. x) if and only if end_reached is not 'y' (resp. 'x') and
\* time_until_can_cross for that direction at the current time is at most
\* choice_wait_time; then exactly that wait is added to time and to
\* cumulative_time_waiting_at_lights and cumulative_lights_waited_at grows by
\* one; in every other case the step crosses the sidewalk to lower_right and
\* accrues no wait.
C18_SideCornerStep ==
    FromSideCorner =>
        LET a == SideDirection
            v == pedestrian.velocity
            willing ==
                /\ Before.end_reached # a
                /\ SideLight # NoLight
                /\ SideLight = set_state(SideLight, last.time)
                /\ RLe(time_until_can_cross(SideLight, a, v), pedestrian.choice_wait_time)
        IN  /\ CrossedLight <=> willing
            /\ CrossedLight =>
                  LET wait == time_until_can_cross(SideLight, a, v)
                  IN  /\ cumulative_time_waiting_at_lights = RAdd(last.time_waiting, wait)
                      /\ cumulative_lights_waited_at = last.waited_at + 1
                      /\ time = RAdd(RAdd(last.time, wait),
                                     RDiv(IF a = "x" THEN SideLight.x_length
                                          ELSE SideLight.y_length, v))
                      /\ city_map.sidewalk_segment.id # Before.sidewalk_segment.id
                      /\ city_map.sidewalk_position = "upper_left"
            /\ ~CrossedLight =>
                  /\ Before.end_reached # a =>
                        /\ SideLight # NoLight
                        /\ SideLight = set_state(SideLight, last.time)
                  /\ cumulative_time_waiting_at_lights = last.time_waiting
                  /\ cumulative_lights_waited_at = last.waited_at
                  /\ time = RAdd(last.time,
                                 RDiv(IF a = "x" THEN Before.sidewalk_segment.y_length
                                      ELSE Before.sidewalk_segment.x_length, v))
                  /\ city_map.sidewalk_segment = Before.sidewalk_segment
                  /\ city_map.grid_position = Before.grid_position
                  /\ city_map.sidewalk_position = "lower_right"

\* a side corner crossed with a wait equal to choice_wait_time, and one left by
\* the sidewalk because the wait was longer
C18_Witness ==
    /\ FromSideCorner
    /\ Before.end_reached # SideDirection
    /\ \/ /\ CrossedLight
          /\ last.wait = pedestrian.choice_wait_time
       \/ /\ ~CrossedLight
          /\ RLt(pedestrian.choice_wait_time,
                 time_until_can_cross(SideLight, SideDirection, pedestrian.velocity))

\* the last step crossed a sidewalk
CrossedSidewalk == last.op = "cross_sidewalk"

\* the direction of a sidewalk crossing, from the corner left and the corner reached
SidewalkDirection ==
    IF last.corner = "upper_left"
    THEN (IF city_map.sidewalk_position = "upper_right" THEN "x" ELSE "y")
    ELSE (IF last.corner = "lower_left" THEN "x" ELSE "y")

\* time, the logs and the walk's place on the grid after a sidewalk crossing
SidewalkStepEffect ==
    /\ time = RAdd(last.time,
                   RDiv(IF SidewalkDirection = "x" THEN Before.sidewalk_segment.x_length
                        ELSE Before.sidewalk_segment.y_length, pedestrian.velocity))
    /\ city_map.sidewalk_segment = Before.sidewalk_segment
    /\ city_map.grid_position = Before.grid_position
    /\ city_map.end_reached = Before.end_reached
    /\ city_map.length = Before.length
    /\ cumulative_time_waiting_at_lights = last.time_waiting
    /\ cumulative_lights_waited_at = last.waited_at
    /\ last.corner = "upper_left" =>
          city_map.sidewalk_position \in {"upper_right", "lower_left"}
    /\ last.corner \in {"lower_left", "upper_right"} =>
          city_map.sidewalk_position = "lower_right"

\* C19 as claimed: every step that crosses a sidewalk changes only time, by
\* the block's time_to_cross, and sidewalk_position; sidewalk_segment,
\* grid_position, end_reached and both wait logs are unchanged; from upper_left
\* the position becomes upper_right for x and lower_left for y.
C19_SidewalkStepChangesOnlyTimeAndPosition ==
    CrossedSidewalk =>
        /\ SidewalkStepEffect
        /\ city_map = [Before EXCEPT !.sidewalk_position = city_map.sidewalk_position]

\* C19 amended: a step that crosses a sidewalk changes time, by the block's
\* time_to_cross, sidewalk_position, and, when it leaves lower_left or
\* upper_right after consulting the light there, that corner's light (created
\* if absent, its state set to the current time); sidewalk_segment,
\* grid_position, end_reached, both wait logs and every other light are
\* unchanged; from upper_left no light changes and the position becomes
\* upper_right for x and lower_left for y.
C19_SidewalkStepFrame ==
    CrossedSidewalk =>
        /\ SidewalkStepEffect
        /\ \A c \in Corners :
              \/ Slot(c) = Before.traffic_light_segments[c]
              \/ /\ c = last.corner
                 /\ c \in {"lower_left", "upper_right"}
                 /\ Before.end_reached # SideDirection
                 /\ Slot(c) # NoLight
                 /\ Slot(c) = set_state(Slot(c), last.time)
                 /\ \/ Before.traffic_light_segments[c] = NoLight
                    \/ Slot(c) = set_state(Before.traffic_light_segments[c], last.time)

\* a sidewalk crossing from lower_left that created the light it declined
C19_Witness ==
    /\ CrossedSidewalk
    /\ last.corner = "lower_left"
    /\ city_map.sidewalk_position = "lower_right"
    /\ Before.traffic_light_segments["lower_left"] = NoLight
    /\ Slot("lower_left") # NoLight

\* the state of a light as constructed, set to time t with no query in between
StateAt(t) == set_state(probe.fresh, t).state

MaxSignalDuration == R(200)

\* the last step crossed a light
CrossedTrafficLight == last.op = "cross_traffic_light"

\* C22: the wait accrued in a step is at most x_signal_duration +
\* y_signal_duration of the light consulted; so in every reachable state
\* cumulative_time_waiting_at_lights <= cumulative_lights_waited_at * 2 * D,
\* D the largest duration, and the logged mean wait per light is at most 2 * D.
C22_WaitBounded ==
    /\ CrossedTrafficLight =>
          /\ Consulted # NoLight
          /\ RLe(last.wait, RAdd(Consulted.x_signal_duration, Consulted.y_signal_duration))
          /\ cumulative_time_waiting_at_lights = RAdd(last.time_waiting, last.wait)
    /\ RLe(cumulative_time_waiting_at_lights,
           RMul(R(cumulative_lights_waited_at), RMul(R(2), MaxSignalDuration)))
    /\ pc = "logged" =>
          RLe(log.cumulative_time_waiting_per_light[1], RMul(R(2), MaxSignalDuration))

\* a logged walk whose last crossing waited through two switches of its light
C22_Witness ==
    /\ pc = "logged"
    /\ CrossedTrafficLight
    /\ RLt(Consulted.y_signal_duration, last.wait)
    /\ RLt(Consulted.x_signal_duration, last.wait)

----------------------------------------------------------------------------
\* A light with lengths, durations and a pedestrian velocity at the ends and
\* inside of the configured ranges, queried at the exact start of a phase.

ConfigLengths == {R(5), Q(35, 2), R(30)}           \* CROSSWALK_LENGTH
ConfigDurations == {R(61), R(100), R(200)}         \* CROSSWALK_DURATION
ConfigVelocities == {Q(1, 2), R(2), R(5)}          \* WALKING_VELOCITY

ConfigInit ==
    /\ city_map = new_city_map(1, [x_length |-> R(5), y_length |-> R(5)], ConstructSample)
    /\ pedestrian = new_pedestrian(NoPedestrianArgs, ConstructSample)
    /\ time = R(0)
    /\ cumulative_time_waiting_at_lights = R(0)
    /\ cumulative_lights_waited_at = 0
    /\ pc = "test"
    /\ next_id = 3
    /\ last = NoLast
    /\ grid_ops = 0
    /\ log = NoLog
    /\ \E xl \in ConfigLengths, yl \in ConfigLengths,
          xd \in ConfigDurations, yd \in ConfigDurations :
          \E light \in {traffic_light(2, [x_length |-> xl, y_length |-> yl,
                                          x_signal_duration |-> xd,
                                          y_signal_duration |-> yd,
                                          initial_state |-> None],
                                      ConstructSample)} :
              probe = [stage |-> "new", time |-> R(0), light |-> light, fresh |-> light]

\* light.set_initial_time_offset(start of the phase of direction);
\* light.set_state(0); light.time_until_can_cross(direction, velocity)
ConfigCrossAtPhaseStart ==
    /\ \E direction \in Directions, velocity \in ConfigVelocities :
          \E light \in {set_state(set_initial_time_offset(
                                      probe.light,
                                      IF direction = "x" THEN R(0) ELSE R(1)), R(0))} :
             probe' = [stage |-> "phase_start", time |-> R(0), light |-> light,
                       fresh |-> light, direction |-> direction, velocity |-> velocity,
                       crossing |-> light_time_to_cross(light, direction, velocity),
                       enough |-> enough_time_to_cross(light, direction, velocity),
                       wait |-> time_until_can_cross(light, direction, velocity)]
    /\ ProbeFrame

ConfigNext == ConfigCrossAtPhaseStart

ConfigSpec == ConfigInit /\ [][ConfigNext]_vars

\* C23: with crossing lengths at most 30, velocities at least 0.5 and
\* durations at least 61, the time to cross in direction d is at most the
\* duration of d, so at the exact start of d's phase the pedestrian can cross now.
C23_PhaseCrossable ==
    probe.stage = "phase_start" =>
        LET d == probe.direction
            duration == IF d = "x" THEN probe.light.x_signal_duration
                        ELSE probe.light.y_signal_duration
            length == IF d = "x" THEN probe.light.x_length ELSE probe.light.y_length
        IN  /\ probe.light.state = (IF d = "x" THEN R(0) ELSE R(1))
            /\ current_crossing_direction(probe.light) = d
            /\ probe.crossing = RDiv(length, probe.velocity)
            /\ RLe(probe.crossing, duration)
            /\ probe.enough
            /\ probe.wait = R(0)

\* the tightest case: length 30 at velocity 0.5 against a duration of 61
C23_Witness ==
    /\ probe.stage = "phase_start"
    /\ probe.direction = "y"
    /\ probe.light.y_length = R(30)
    /\ probe.velocity = Q(1, 2)
    /\ probe.light.y_signal_duration = R(61)
    /\ probe.crossing = R(60)
    /\ probe.wait = R(0)

\* the last operation was get_current_traffic_light
GotLight == last.op = "get_current_traffic_light"

\* C24: get_current_traffic_light is idempotent: a call at a corner that
\* already has a light returns that light and creates nothing, and a call
\* never changes the slot of any other corner (an empty one stays empty).
C24_GetLightIdempotent ==
    GotLight =>
        /\ city_map.sidewalk_position = Before.sidewalk_position
        /\ Occupied(city_map.sidewalk_position)
        /\ \A c \in Corners :
              c # city_map.sidewalk_position =>
                  Slot(c) = Before.traffic_light_segments[c]
        /\ current_light(Before) # NoLight =>
              /\ current_light(city_map) = current_light(Before)
              /\ city_map = Before
        /\ \A s \in GridLightSamples :
              get_current_traffic_light(city_map, next_id, s) = city_map

\* a second call at a corner that has its light, while another corner has none
C24_Witness ==
    /\ GotLight
    /\ current_light(Before) # NoLight
    /\ city_map = Before
    /\ \E c \in Corners : ~Occupied(c)

\* C25 as claimed: a step that crosses the light along x at upper_right ends
\* at lower_right, and one that crosses along y at lower_left ends at upper_right.
C25_SideCrossingLandsAsClaimed ==
    (FromSideCorner /\ CrossedLight) =>
        city_map.sidewalk_position =
            (IF last.corner = "upper_right" THEN "lower_right" ELSE "upper_right")

\* C25 amended: a step that crosses the light along x at upper_right, or along
\* y at lower_left, ends at upper_left of the new block.
C25_SideCrossingLandsUpperLeft ==
    (FromSideCorner /\ CrossedLight) =>
        /\ last.op = "cross_traffic_light"
        /\ last.direction = SideDirection
        /\ city_map.sidewalk_segment.id # Before.sidewalk_segment.id
        /\ city_map.sidewalk_position = "upper_left"

\* a pedestrian at upper_right who waited a positive time and crossed along x
C25_Witness ==
    /\ FromSideCorner
    /\ CrossedLight
    /\ last.corner = "upper_right"
    /\ last.direction = "x"
    /\ RLt(R(0), last.wait)
    /\ city_map.sidewalk_position = "upper_left"

\* C26: in every step that crosses a light, the crossing time added to time is
\* that of the light at the pedestrian's corner after new_sidewalk_block, and
\* that light is the one whose wait was evaluated before it.
C26_CrossingTimeOfConsultedLight ==
    CrossedTrafficLight =>
        /\ Consulted # NoLight
        /\ Consulted = set_state(Consulted, last.time)
        /\ Before.traffic_light_segments[last.corner] # NoLight =>
               Consulted = set_state(Before.traffic_light_segments[last.corner], last.time)
        /\ last.wait = time_until_can_cross(Consulted, last.direction, pedestrian.velocity)
        /\ time = RAdd(RAdd(last.time, last.wait),
                       RDiv(IF last.direction = "x" THEN Consulted.x_length
                            ELSE Consulted.y_length, pedestrian.velocity))

\* a crossing of a light that stood at the corner before the step, after a wait
C26_Witness ==
    /\ CrossedTrafficLight
    /\ Before.traffic_light_segments[last.corner] # NoLight
    /\ Consulted.id = Before.traffic_light_segments[last.corner].id
    /\ RLt(R(0), last.wait)
    /\ Consulted.x_length # Consulted.y_length

\* the last step called new_sidewalk_block: the block or the grid position changed
CalledNewSidewalkBlock ==
    /\ last.op # "init"
    /\ \/ city_map.sidewalk_segment # Before.sidewalk_segment
       \/ city_map.grid_position # Before.grid_position

\* C27: new_sidewalk_block is never called while sidewalk_position is
\* upper_left: every light crossing starts at upper_right, lower_left or
\* lower_right.
C27_NoAdvanceFromUpperLeft ==
    /\ CalledNewSidewalkBlock => last.corner \in {"upper_right", "lower_left", "lower_right"}
    /\ CrossedTrafficLight => CalledNewSidewalkBlock
    /\ (last.op # "init" /\ last.corner = "upper_left") =>
          /\ last.op = "cross_sidewalk"
          /\ city_map.traffic_light_segments = Before.traffic_light_segments

\* a step from upper_left of a block reached by an earlier light crossing,
\* with a light standing at that corner
C27_Witness ==
    /\ last.op = "cross_sidewalk"
    /\ last.corner = "upper_left"
    /\ Before.traffic_light_segments["upper_left"] # NoLight
    /\ Before.grid_position.x + Before.grid_position.y > 2
    /\ ~CalledNewSidewalkBlock

\* the direction that was finished before the last step, if one was
FinishedBefore == Before.end_reached

\* C28: once end_reached is 'x' (resp. 'y') new_sidewalk_block is never again
\* called with 'x' (resp. 'y'): grid_position on a finished direction stays
\* constant, also when the pedestrian is at upper_right or lower_left.
C28_FinishedDirectionNotAdvanced ==
    (last.op # "init" /\ FinishedBefore \in Directions) =>
        /\ city_map.grid_position[FinishedBefore] = Before.grid_position[FinishedBefore]
        /\ city_map.end_reached \in {FinishedBefore, "True"}
        /\ CrossedTrafficLight => last.direction = other_direction[FinishedBefore]

\* a pedestrian at upper_right after x was finished: the step goes on to lower_right
C28_Witness ==
    /\ last.op = "cross_sidewalk"
    /\ last.corner = "upper_right"
    /\ FinishedBefore = "x"
    /\ city_map.sidewalk_position = "lower_right"
    /\ city_map.grid_position = Before.grid_position

\* C29: in every reachable state of a walk cumulative_lights_waited_at equals
\* (grid_position x - 1) + (grid_position y - 1): the lights logged are the
\* blocks advanced.
C29_CountEqualsAdvances ==
    cumulative_lights_waited_at =
        (city_map.grid_position.x - 1) + (city_map.grid_position.y - 1)

\* a light crossed without waiting, counted with the two before it
C29_Witness ==
    /\ CrossedTrafficLight
    /\ last.wait = R(0)
    /\ cumulative_lights_waited_at = 3
    /\ city_map.grid_position.x > 1
    /\ city_map.grid_position.y > 1

\* C30: in every finished walk (end_reached is True) cumulative_lights_waited_at
\* is at least 2, because each direction was advanced at least once; so the
\* division in run_simulations is never a division by zero.
C30_FinishedWalkWaitedTwice ==
    /\ city_map.end_reached = "True" =>
          /\ city_map.grid_position.x >= 2
          /\ city_map.grid_position.y >= 2
          /\ cumulative_lights_waited_at >= 2
    /\ pc \in {"done", "logged"} =>
          /\ city_map.end_reached = "True"
          /\ cumulative_lights_waited_at >= 2
    /\ pc # "ZeroDivisionError"

\* the shortest finished walk, logged: one advance in each direction
C30_Witness ==
    /\ pc = "logged"
    /\ city_map.end_reached = "True"
    /\ city_map.length = [x |-> R(2), y |-> R(2)]
    /\ city_map.grid_position = [x |-> 2, y |-> 2]
    /\ cumulative_lights_waited_at = 2

\* C31: for every light, state and velocity the waits for x and for y differ,
\* so the tie of the comparison at lower_right never decides the direction,
\* and the smaller wait is at most the time until the current phase ends.
C31_WaitsNeverTie ==
    Waited =>
        LET wait_x == probe.cross_wait_time_x
            wait_y == probe.cross_wait_time_y
            smaller == IF RLt(wait_x, wait_y) THEN wait_x ELSE wait_y
        IN  /\ wait_x # wait_y
            /\ lower_right_direction("False", wait_x, wait_y) =
                   (IF RLt(wait_x, wait_y) THEN "x" ELSE "y")
            /\ RLe(smaller, Remaining(probe.before))
            /\ probe.wait = (IF probe.direction = "x" THEN wait_x ELSE wait_y)

\* x is crossing without enough time left for it: its wait spans two switches
\* and the smaller wait, for y, is exactly the time until the phase ends
C31_Witness ==
    /\ Waited
    /\ current_crossing_direction(probe.before) = "x"
    /\ RLt(R(0), probe.cross_wait_time_y)
    /\ RLt(probe.cross_wait_time_y, probe.cross_wait_time_x)
    /\ probe.cross_wait_time_y = Remaining(probe.before)

====
